---- MODULE Spec2Model ----
(***************************************************************************)
(* A model of .github/scripts/manifest_sync.py: the resolver               *)
(* (fetch_scenario_ini), the statistics fetcher (fetch_stats), the         *)
(* freshness lookup (get_repo_file_info), the entry processor              *)
(* (process_scenario_section), the two batch loops and main.               *)
(*                                                                         *)
(* Text is modelled as a sequence of tokens (each token an atomic piece of *)
(* a string: "/", a letter, a host prefix, a file extension), so that      *)
(* concatenation, trailing-slash stripping, splitting and case folding are *)
(* computed and not assumed.                                               *)
(***************************************************************************)
EXTENDS Integers, Sequences, FiniteSets, TLC

\* ------------------------------------------------------------------ bounds

\* The longest catalogue (number of sections) a batch reads.
MaxEntries == 2

\* ------------------------------------------------------- program constants

\* fetch_scenario_ini(url, scenario_name=None, retries=3, delay=2)
retries == 3
\* get_repo_file_info(url, retries=3, delay=2, file_extension=".valkyrie")
info_retries == 3

Null == <<"<None>">>

\* ------------------------------------------------------------ text helpers

RECURSIVE Lower(_)
\* str.lower(), token by token.
LowerTok(t) ==
    CASE t = "Foo" -> "foo"
      [] t = "FOO" -> "foo"
      [] t = "Baz" -> "baz"
      [] t = "Qux" -> "qux"
      [] t = "Quest" -> "quest"
      [] t = "Pack" -> "pack"
      [] t = "Other" -> "other"
      [] t = "Extra" -> "extra"
      [] t = "Name" -> "name"
      [] t = "DEFAULT" -> "default"
      [] t = "D2E" -> "d2e"
      [] t = "MoM" -> "mom"
      [] t = "1970-01-01T12:28:29Z" -> "1970-01-01t12:28:29z"
      [] t = "2024-05-06T07:08:09Z" -> "2024-05-06t07:08:09z"
      [] t = "X" -> "x"
      [] t = ".INI" -> ".ini"
      [] t = ".Valkyrie" -> ".valkyrie"
      [] t = ".valkyrieContentPack" -> ".valkyriecontentpack"
      [] OTHER -> t
Lower(s) == IF s = <<>> THEN <<>> ELSE <<LowerTok(Head(s))>> \o Lower(Tail(s))

\* str.endswith(suffix)
EndsWith(s, suffix) ==
    /\ Len(s) >= Len(suffix)
    /\ SubSeq(s, Len(s) - Len(suffix) + 1, Len(s)) = suffix

RECURSIVE LStrip(_, _)
\* str.lstrip(c): drop every leading c.
LStrip(s, c) == IF s # <<>> /\ Head(s) = c THEN LStrip(Tail(s), c) ELSE s

RECURSIVE RStrip(_, _)
\* str.rstrip(c): drop every trailing c.
RStrip(s, c) ==
    IF s # <<>> /\ s[Len(s)] = c THEN RStrip(SubSeq(s, 1, Len(s) - 1), c) ELSE s

\* str.strip(c)
Strip(s, c) == RStrip(LStrip(s, c), c)

RECURSIVE SplitAcc(_, _, _)
SplitAcc(s, c, cur) ==
    IF s = <<>> THEN <<cur>>
    ELSE IF Head(s) = c THEN <<cur>> \o SplitAcc(Tail(s), c, <<>>)
    ELSE SplitAcc(Tail(s), c, Append(cur, Head(s)))
\* str.split(c): the pieces between the separators, empty pieces kept.
Split(s, c) == SplitAcc(s, c, <<>>)

RECURSIVE Join(_, _)
\* c.join(parts)
Join(parts, c) ==
    IF parts = <<>> THEN <<>>
    ELSE IF Len(parts) = 1 THEN parts[1]
    ELSE parts[1] \o <<c>> \o Join(Tail(parts), c)

\* ------------------------------------------------------------------- URLs

RawHost == "https://raw.githubusercontent.com"
FlatHost == "https://example.org"

\* urlparse(url).netloc: a URL's first token is its scheme and host.
Netloc(url) ==
    IF url[1] = RawHost THEN "raw.githubusercontent.com" ELSE "example.org"
\* urlparse(url).path
Path(url) == Tail(url)
\* "raw.githubusercontent.com" in parsed.netloc
IsRawNetloc(url) == Netloc(url) \in {"raw.githubusercontent.com"}

\* parsed.path.strip('/').split('/')
Parts(url) == Split(Strip(Path(url), "/"), "/")

\* The directory-listing URL built from user, repo, branch and sub-path.
ApiUrl(url) ==
    LET parts == Parts(url)
        repo_path == IF Len(parts) > 3 THEN Join(SubSeq(parts, 4, Len(parts)), "/")
                     ELSE <<>>
    IN  IF repo_path # <<>>
        THEN <<"https://api.github.com/repos/">> \o parts[1] \o <<"/">> \o parts[2]
             \o <<"/contents/">> \o repo_path \o <<"?ref=">> \o parts[3]
        ELSE <<"https://api.github.com/repos/">> \o parts[1] \o <<"/">> \o parts[2]
             \o <<"/contents?ref=">> \o parts[3]

StripEveryTrailingSlash(url) == RStrip(url, "/")
\* if url.endswith('/'): url = url[:-1]
StripTrailingSlash(url) ==
    IF url[Len(url)] = "/" THEN SubSeq(url, 1, Len(url) - 1) ELSE url

\* f"{url}/{scenario_name}.ini"
DirectIniUrl(url, scenario_name) == url \o <<"/", scenario_name, ".ini">>

\* ------------------------------------------------- ordered mappings (dict)

RECURSIVE HasKey(_, _)
\* k in d, for d a sequence of <<key, value>> pairs with distinct keys.
HasKey(d, k) == d # <<>> /\ (Head(d)[1] = k \/ HasKey(Tail(d), k))

RECURSIVE GetKey(_, _)
\* d[k], for k in d.
GetKey(d, k) == IF Head(d)[1] = k THEN Head(d)[2] ELSE GetKey(Tail(d), k)

\* d[k] = v: an existing key keeps its place, a new key goes last.
SetKey(d, k, v) ==
    IF HasKey(d, k)
    THEN [i \in 1..Len(d) |-> IF d[i][1] = k THEN <<k, v>> ELSE d[i]]
    ELSE Append(d, <<k, v>>)

RECURSIVE Update(_, _)
\* for k, v in e.items(): d[k] = v
Update(d, e) == IF e = <<>> THEN d ELSE Update(SetKey(d, Head(e)[1], Head(e)[2]), Tail(e))

\* --------------------------------------------------------------- the codec

\* A document: whether it starts with a byte-order marker, and its lines.
\* A line is a section header, an option (key=value), a comment, a blank
\* line, an indented line of text ("cont": what follows an option as a
\* continuation of its value), or unindented text that is none of these
\* ("junk"). The text of a "cont" or "junk" line has no '=', ':' or '['.
Line(kind, name, value) == [kind |-> kind, name |-> name, value |-> value]
Sect(name) == Line("section", name, <<>>)
Opt(key, value) == Line("option", key, value)
Comment == Line("comment", "", <<>>)
Blank == Line("blank", "", <<>>)
Junk == Line("junk", "", <<>>)
Cont(text) == Line("cont", "", text)
Text(text) == Line("junk", "", text)
Doc(bom, lines) == [bom |-> bom, lines |-> lines]

\* The state of a ConfigParser: its sections in document order, each with
\* its options in order, its DEFAULT options, the exception raised, and the
\* option the reader would continue ("" for none).
EmptyParser == [err |-> "", sections |-> <<>>, defaults |-> <<>>, optname |-> ""]

SectionIndex(sections, name) ==
    IF \E i \in 1..Len(sections) : sections[i].name = name
    THEN CHOOSE i \in 1..Len(sections) : sections[i].name = name
    ELSE 0

\* cursect[optname].append(piece): the pieces of a value are joined with
\* line breaks.
AppendPiece(items, optname, piece) ==
    [i \in 1..Len(items) |->
        IF items[i][1] = optname
        THEN <<optname, items[i][2] \o <<"\n">> \o piece>>
        ELSE items[i]]

\* The parser with one more piece on the value of the option being read.
Continue(p, cursect, piece) ==
    IF cursect = -1
    THEN [p EXCEPT !.defaults = AppendPiece(@, p.optname, piece)]
    ELSE [p EXCEPT !.sections[cursect].items = AppendPiece(@, p.optname, piece)]

\* '\n'.join(val).rstrip() on every value of a mapping.
JoinValues(items) ==
    [i \in 1..Len(items) |-> <<items[i][1], RStrip(items[i][2], "\n")>>]

\* RawConfigParser._join_multiline_values
JoinMultilineValues(p) ==
    [p EXCEPT !.defaults = JoinValues(@),
              !.sections = [i \in 1..Len(@) |->
                               [@[i] EXCEPT !.items = JoinValues(@)]]]

RECURSIVE ReadLines(_, _, _, _)
\* RawConfigParser._read in strict mode: cursect is 0 before any header, -1
\* inside [DEFAULT], else the index of the current section; bad is TRUE once
\* a line was no option (the ParsingError is raised after the last line).
\* A blank line or an indented line after an option goes to that option's
\* value; a header ends the option.
ReadLines(lines, p, cursect, bad) ==
    IF lines = <<>>
    THEN IF bad THEN [p EXCEPT !.err = "ParsingError"] ELSE JoinMultilineValues(p)
    ELSE
    LET l == Head(lines) rest == Tail(lines) IN
    CASE l.kind = "comment" -> ReadLines(rest, p, cursect, bad)
      [] l.kind = "blank" ->
            IF cursect # 0 /\ p.optname # ""
            THEN ReadLines(rest, Continue(p, cursect, <<>>), cursect, bad)
            ELSE ReadLines(rest, p, cursect, bad)
      [] l.kind = "cont" /\ cursect # 0 /\ p.optname # "" ->
            ReadLines(rest, Continue(p, cursect, l.value), cursect, bad)
      [] l.kind = "section" ->
            IF l.name = "DEFAULT"
            THEN ReadLines(rest, [p EXCEPT !.optname = ""], -1, bad)
            ELSE IF SectionIndex(p.sections, l.name) # 0
            THEN [p EXCEPT !.err = "DuplicateSectionError"]
            ELSE ReadLines(rest,
                           [p EXCEPT !.sections =
                                Append(@, [name |-> l.name, items |-> <<>>]),
                                     !.optname = ""],
                           Len(p.sections) + 1, bad)
      [] l.kind = "option" ->
            IF cursect = 0 THEN [p EXCEPT !.err = "MissingSectionHeaderError"]
            ELSE IF cursect = -1
            THEN IF HasKey(p.defaults, l.name)
                 THEN [p EXCEPT !.err = "DuplicateOptionError"]
                 ELSE ReadLines(rest,
                                [p EXCEPT !.defaults = Append(@, <<l.name, l.value>>),
                                          !.optname = l.name],
                                cursect, bad)
            ELSE IF HasKey(p.sections[cursect].items, l.name)
                 THEN [p EXCEPT !.err = "DuplicateOptionError"]
                 ELSE ReadLines(rest,
                                [p EXCEPT !.sections[cursect].items =
                                     Append(@, <<l.name, l.value>>),
                                          !.optname = l.name],
                                cursect, bad)
      [] OTHER ->
            IF cursect = 0 THEN [p EXCEPT !.err = "MissingSectionHeaderError"]
            ELSE ReadLines(rest, p, cursect, TRUE)

\* config.read_string(content) on a fresh parser. A byte-order marker makes
\* the first line of the content a line that is no header, no comment and
\* not blank, before any section.
ReadString(doc) ==
    IF doc.bom THEN [EmptyParser EXCEPT !.err = "MissingSectionHeaderError"]
    ELSE ReadLines(doc.lines, EmptyParser, 0, FALSE)

\* content.lstrip('﻿')
StripBom(doc) == [doc EXCEPT !.bom = FALSE]

\* config.sections(): the section names in document order, DEFAULT left out.
Sections(p) == [i \in 1..Len(p.sections) |-> p.sections[i].name]

\* "name" in config
HasSection(p, name) == name = "DEFAULT" \/ SectionIndex(p.sections, name) # 0

RECURSIVE WithoutKeys(_, _)
\* The pairs of d whose key is not a key of e, in order.
WithoutKeys(d, e) ==
    IF d = <<>> THEN <<>>
    ELSE IF HasKey(e, Head(d)[1]) THEN WithoutKeys(Tail(d), e)
    ELSE <<Head(d)>> \o WithoutKeys(Tail(d), e)

\* config[name].items(): the section's own options, then the DEFAULT
\* options the section does not set.
Items(p, name) ==
    IF name = "DEFAULT" THEN p.defaults
    ELSE LET own == p.sections[SectionIndex(p.sections, name)].items
         IN  own \o WithoutKeys(p.defaults, own)

\* The parse step of process_scenario_section: the parser after
\* read_string, with one more try without the marker after a
\* MissingSectionHeaderError; err is "skip" where the code returns None.
ParseScenarioIni(doc) ==
    LET first == ReadString(doc) IN
    IF first.err = "" THEN first
    ELSE IF first.err = "MissingSectionHeaderError"
    THEN LET second == ReadString(StripBom(doc)) IN
         IF second.err = "" THEN second ELSE [second EXCEPT !.err = "skip"]
    ELSE [first EXCEPT !.err = "skip"]

SelectFieldsOfFirst(p) ==
    IF Sections(p) = <<>> THEN [err |-> "IndexError", data |-> <<>>]
    ELSE [err |-> "", data |-> Items(p, Sections(p)[1])]
\* The field selection of process_scenario_section: the fields of [Quest],
\* else of the first section; "IndexError" when there is no section.
SelectFields(p) ==
    IF HasSection(p, "Quest") THEN [err |-> "", data |-> Items(p, "Quest")]
    ELSE IF Sections(p) = <<>> THEN [err |-> "IndexError", data |-> <<>>]
    ELSE [err |-> "", data |-> Items(p, Sections(p)[1])]

\* BasicInterpolation.before_get on a value of the catalogue's parser: a
\* token "%" is a percent sign that neither "%" nor "(" follows, "%%" is
\* an escaped percent sign.
Interpolate(value) ==
    IF \E i \in 1..Len(value) : value[i] = "%"
    THEN [err |-> "InterpolationSyntaxError", value |-> <<>>]
    ELSE [err |-> "",
          value |-> [i \in 1..Len(value) |-> IF value[i] = "%%" THEN "%" ELSE value[i]]]

\* parse_manifest_ini on the text of the catalogue file: a ConfigParser
\* with the default interpolation reads the text once.
parse_manifest_ini(text) == ReadString(text)

\* ------------------------------------------------------- the environment

\* One entry of a directory listing of the hosting API. A directory has no
\* download_url (null).
File(name) == [name |-> name, download_url |-> <<RawHost, "/dl/">> \o name, path |-> name]
Dir(name) == [name |-> name, download_url |-> Null, path |-> name]

\* The bodies a 200 response to a listing request can carry: an object that
\* is no list, or a list of entries.
NotAList == <<[name |-> <<"<object>">>, download_url |-> Null, path |-> <<>>]>>
Listings ==
    { <<>>,
      <<File(<<"X", ".valkyrie">>), File(<<"foo", ".ini">>)>>,
      <<File(<<"FOO", ".INI">>), File(<<"Foo", ".ini">>), File(<<"x", ".Valkyrie">>)>>,
      <<Dir(<<"foo", ".ini">>), File(<<"Foo", ".ini">>)>>,
      <<File(<<"bar", ".ini">>), File(<<"p", ".valkyrieContentPack">>)>>,
      <<File(<<"bar", ".ini", ".bak">>), File(<<"readme">>)>> }
ListingBodies == Listings \cup {NotAList}

\* The texts a 200 response to a fetch of an .ini file can carry.
Contents ==
    { Doc(FALSE, <<>>),
      Doc(FALSE, <<Sect("Other"), Opt("name", <<"o">>),
                   Sect("Quest"), Opt("name", <<"q">>), Opt("url", <<"stale">>),
                   Opt("latest_update", <<"old">>)>>),
      Doc(FALSE, <<Comment, Sect("Pack"), Opt("Name", <<"p">>),
                   Opt("rating", <<"old">>), Opt("duration", <<"90">>),
                   Opt("desc", <<"a">>), Cont(<<"b">>), Sect("Extra")>>),
      Doc(TRUE, <<Sect("Quest"), Opt("pct", <<"100", "%">>)>>),
      Doc(FALSE, <<Comment>>),
      Doc(FALSE, <<Sect("DEFAULT"), Opt("name", <<"d">>)>>),
      Doc(FALSE, <<Opt("name", <<"q">>), Sect("Quest")>>),
      Doc(FALSE, <<Sect("Quest"), Junk>>) }

\* The bodies a 200 response to a revision-history request can carry: the
\* committer dates of the commits, newest first.
SomeDate == <<"2024-05-06T07:08:09Z">>
CommitBodies == { <<>>, <<SomeDate>> }

\* A JSON number of the statistics document, as written in the document.
Num(kind, lit) == [kind |-> kind, lit |-> lit]
\* str(v) of the parsed number: an int prints as written, a float in its
\* shortest form.
PyStr(v) ==
    IF v.kind = "float" /\ v.lit = <<"4", ".", "50">> THEN <<"4", ".", "5">>
    ELSE v.lit

\* The statistics documents the endpoint can return: whether the top-level
\* list is there, and its items (ordered mappings).
StatsDocs ==
    { [has_list |-> FALSE, items |-> <<>>],
      [has_list |-> TRUE,
       items |-> << << <<"scenario_avg_rating", Num("float", <<"9">>)>> >>,
                    << <<"scenario_name", <<"X", ".valkyrie">> >>,
                       <<"scenario_avg_rating", Num("float", <<"4", ".", "50">>)>>,
                       <<"scenario_play_count", Num("int", <<"12">>)>> >> >>] }

\* The catalogue entries: a section name and, when the section has the
\* key, its `external` value.
Entry(name, has, external) == [name |-> name, has_external |-> has, external |-> external]
EntryPool ==
    { Entry("Foo", TRUE, <<FlatHost, "/", "d", "/">>),
      Entry("Foo", TRUE, <<RawHost, "/", "u", "/", "r", "/", "b", "/", "d", "/">>),
      Entry("bar", TRUE, <<RawHost, "/", "u", "/", "r", "/", "b">>),
      Entry("bar", TRUE, <<FlatHost>>),
      Entry("Baz", FALSE, <<>>),
      Entry("Baz", TRUE, <<RawHost, "/", "u", "/", "r">>),
      Entry("Qux", TRUE, <<FlatHost, "/", "d", "/", "/">>),
      Entry("Qux", TRUE, <<FlatHost, "/", "a", "%", "20b">>) }

\* The parsed catalogues: sequences of entries with distinct section names.
Catalogues ==
    UNION { { c \in [1..n -> EntryPool] :
                \A i, j \in 1..n : i # j => c[i].name # c[j].name } : n \in 0..MaxEntries }

RECURSIVE CatalogueLines(_)
\* The lines of a catalogue file: one section per entry, with its
\* `external` option when it has one.
CatalogueLines(c) ==
    IF c = <<>> THEN <<>>
    ELSE <<Sect(Head(c).name)>>
         \o (IF Head(c).has_external THEN <<Opt("external", Head(c).external)>> ELSE <<>>)
         \o <<Blank>> \o CatalogueLines(Tail(c))

\* The texts open(manifest_path).read() can return: the file is decoded as
\* utf-8, which keeps a byte-order marker as the first character.
CatalogueDocs == { Doc(bom, CatalogueLines(c)) : bom \in BOOLEAN, c \in Catalogues }

\* What process_scenario_section reads of each section of the parsed
\* catalogue, in the order of config.sections(): whether "external" is in
\* config[section], and the stored value.
EntriesOf(p) ==
    [i \in 1..Len(p.sections) |->
        LET items == Items(p, p.sections[i].name)
        IN  Entry(p.sections[i].name, HasKey(items, "external"),
                  IF HasKey(items, "external") THEN GetKey(items, "external") ELSE <<>>)]

\* ------------------------------------------------------------- the state

VARIABLES
    pc,             \* where the program stands
    game_type,      \* sys.argv[1]
    batch,          \* "scenarios" (process_manifest) or "contentpacks"
    stats_map,      \* the StatsIndex of the batch: filename -> item
    config,         \* the parsed catalogue of the batch
    idx,            \* the number of sections the loop has gone through
    scenarios,      \* the records collected by the loop
    results,        \* what each section's processing ended with, in order
    last_why,       \* the message logged on the way out of the last section's call
    url,            \* fetch_scenario_ini: the normalised url
    attempt,        \* the attempt number of the running retry loop
    files,          \* fetch_scenario_ini: the listing whose entry was selected
    ini_file,       \* fetch_scenario_ini: the download_url selected
    content,        \* the text fetch_scenario_ini returned
    scenario_data,  \* process_scenario_section: the selected fields
    target,         \* get_repo_file_info: the matched file's path and name
    requests,       \* the requests and sleeps of the running call, in order
    calls,          \* the functions that sent a request for the current section
    out_file,       \* the lines at the batch's output path (NoFile: no file)
    out_status,     \* "none", "ok" or "failed": the batch's write
    writes,         \* the number of times the batch opened its output file
    stats_fetches,  \* the number of requests for the statistics document
    manifest_content, \* parse_manifest_ini: the text read from the catalogue file
    selected,       \* the fields selected from the fetched text, current section
    repo_info,      \* what get_repo_file_info returned for the current section
    info_why,       \* the message get_repo_file_info logged when it returned
    exit_code       \* the process's exit status (-1 while running)

vars == <<pc, game_type, batch, stats_map, config, idx, scenarios, results, last_why, url,
          attempt, files, ini_file, content, scenario_data, target, requests, calls,
          out_file, out_status, writes, stats_fetches, manifest_content, selected,
          repo_info, info_why, exit_code>>

batchVars == <<batch, stats_map, config, game_type, stats_fetches, manifest_content>>
infoVars == <<selected, repo_info, info_why>>
outVars == <<out_file, out_status, writes, exit_code>>
localVars == <<url, attempt, files, ini_file, content, scenario_data, target>>

NoTarget == [path |-> Null, filename |-> Null]
NoDoc == Doc(FALSE, <<>>)
\* There is no file at the output path.
NoFile == <<Line("none", "", <<>>)>>
NoInfo == [date |-> Null, filename |-> Null]

Init ==
    /\ pc = "main"
    /\ game_type = ""
    /\ batch = ""
    /\ stats_map = <<>>
    /\ config = <<>>
    /\ idx = 0
    /\ scenarios = <<>>
    /\ results = <<>>
    /\ last_why = ""
    /\ url = <<>>
    /\ attempt = 0
    /\ files = <<>>
    /\ ini_file = Null
    /\ content = NoDoc
    /\ scenario_data = <<>>
    /\ target = NoTarget
    /\ requests = <<>>
    /\ calls = {}
    /\ out_file = NoFile
    /\ out_status = "none"
    /\ writes = 0
    /\ stats_fetches = 0
    /\ manifest_content = NoDoc
    /\ selected = <<>>
    /\ repo_info = NoInfo
    /\ info_why = ""
    /\ exit_code = -1

\* ------------------------------------------------------------------- main

get_manifest_path(gt) ==
    IF gt = "D2E" THEN "D2E/manifestDownload.ini" ELSE "MoM/manifestDownload.ini"

get_contentpackmanifest_path(gt) ==
    IF gt = "D2E" THEN "D2E/contentPacksManifestDownload.ini"
    ELSE "MoM/contentPacksManifestDownload.ini"

\* The output path of the running batch.
OutPath ==
    IF batch = "contentpacks" THEN get_contentpackmanifest_path(game_type)
    ELSE get_manifest_path(game_type)

\* main, up to the call of process_manifest: without an argument the
\* script exits with status 1.
Main ==
    /\ pc = "main"
    /\ \E argv \in {<<>>, <<"D2E">>} :
          IF Len(argv) < 1
          THEN /\ pc' = "exit"
               /\ exit_code' = 1
               /\ UNCHANGED <<game_type, batch>>
          ELSE /\ game_type' = argv[1]
               /\ batch' = "scenarios"
               /\ pc' = "fetch_stats"
               /\ UNCHANGED exit_code
    /\ UNCHANGED <<stats_map, config, idx, scenarios, results, last_why, requests, calls,
                   out_file, out_status, writes, stats_fetches, manifest_content>>
    /\ UNCHANGED localVars
    /\ UNCHANGED infoVars

\* ------------------------------------------------------------ fetch_stats

RECURSIVE BuildStatsMap(_, _)
\* for item in data["scenarios_stats"]:
\*     if "scenario_name" in item: stats_map[item["scenario_name"]] = item
BuildStatsMap(items, acc) ==
    IF items = <<>> THEN acc
    ELSE IF HasKey(Head(items), "scenario_name")
    THEN BuildStatsMap(Tail(items),
                       SetKey(acc, GetKey(Head(items), "scenario_name"), Head(items)))
    ELSE BuildStatsMap(Tail(items), acc)

\* What fetch_stats returns for a 200 response carrying the document.
StatsOf(doc) == IF doc.has_list THEN BuildStatsMap(doc.items, <<>>) ELSE <<>>

FetchStatsRetrying ==
    /\ pc = "fetch_stats"
    /\ \/ stats_map' = <<>> /\ stats_fetches' = stats_fetches + 2
       \/ \E doc \in StatsDocs :
             stats_map' = StatsOf(doc) /\ stats_fetches' = stats_fetches + 1
    /\ pc' = "parse_manifest"
    /\ UNCHANGED <<game_type, batch, config, idx, scenarios, results, last_why, requests, calls,
                   manifest_content>>
    /\ UNCHANGED outVars
    /\ UNCHANGED localVars
    /\ UNCHANGED infoVars
\* fetch_stats, called first by each batch: one request, no retry; a
\* non-200 response or an exception gives the empty index.
FetchStats ==
    /\ pc = "fetch_stats"
    /\ \/ stats_map' = <<>>
       \/ \E doc \in StatsDocs : stats_map' = StatsOf(doc)
    /\ stats_fetches' = stats_fetches + 1
    /\ pc' = "parse_manifest"
    /\ UNCHANGED <<game_type, batch, config, idx, scenarios, results, last_why, requests, calls,
                   manifest_content>>
    /\ UNCHANGED outVars
    /\ UNCHANGED localVars
    /\ UNCHANGED infoVars

\* parse_manifest_ini and the creation of the list: the catalogue file is
\* read and parsed; when it cannot be opened, or read_string raises, the
\* exception leaves process_manifest and main uncaught.
ParseManifest ==
    /\ pc = "parse_manifest"
    /\ \/ \E text \in CatalogueDocs :
             /\ manifest_content' = text
             /\ LET p == parse_manifest_ini(text) IN
                IF p.err = ""
                THEN /\ config' = EntriesOf(p)
                     /\ pc' = "loop"
                     /\ UNCHANGED exit_code
                ELSE /\ pc' = "crashed"
                     /\ exit_code' = 1
                     /\ UNCHANGED config
       \/ /\ pc' = "crashed"
          /\ exit_code' = 1
          /\ UNCHANGED <<config, manifest_content>>
    /\ idx' = 0
    /\ scenarios' = <<>>
    /\ results' = <<>>
    /\ last_why' = ""
    /\ UNCHANGED <<game_type, batch, stats_map, requests, calls, out_file, out_status,
                   writes, stats_fetches>>
    /\ UNCHANGED localVars
    /\ UNCHANGED infoVars

\* ------------------------------------------------------- the batch loop

\* What a call of process_scenario_section ends with.
\* `why` names the message the code logs on that way out.
NoneResult(name, why) == [outcome |-> "none", name |-> name, data |-> <<>>, why |-> why]
Raised(name, why) == [outcome |-> "raised", name |-> name, data |-> <<>>, why |-> why]
Record(name, data) == [outcome |-> "record", name |-> name, data |-> data, why |-> ""]

\* The section the loop is processing.
Section == config[idx + 1]

ResetLocals ==
    /\ url' = <<>>
    /\ attempt' = 0
    /\ files' = <<>>
    /\ ini_file' = Null
    /\ content' = NoDoc
    /\ scenario_data' = <<>>
    /\ target' = NoTarget

\* One pass of the loop body around process_scenario_section, given what
\* the call ended with: a record is appended, None is dropped, and an
\* exception is caught and logged; the loop goes on with the next section.
LoopBodyBreak(result) ==
    /\ idx' = IF result.outcome = "raised" THEN Len(config) ELSE idx + 1
    /\ scenarios' = IF result.outcome = "record"
                    THEN Append(scenarios, [name |-> result.name, data |-> result.data])
                    ELSE scenarios
LoopBodyAppendAll(result) ==
    /\ idx' = idx + 1
    /\ scenarios' = IF result.outcome # "raised"
                    THEN Append(scenarios, [name |-> result.name, data |-> result.data])
                    ELSE scenarios
LoopBody(result) ==
    /\ idx' = idx + 1
    /\ scenarios' = IF result.outcome = "record"
                    THEN Append(scenarios, [name |-> result.name, data |-> result.data])
                    ELSE scenarios

\* process_scenario_section ends with `result` and the loop takes it.
EndSection(result) ==
    /\ LoopBody(result)
    /\ results' = Append(results, [outcome |-> result.outcome, name |-> result.name])
    /\ last_why' = result.why
    /\ pc' = "loop"
    /\ ResetLocals

\* ------------------------------------------------------ fetch_scenario_ini

Get(phase, u) == [op |-> "get", phase |-> phase, url |-> u, attempt |-> attempt]
Sleep(phase) == [op |-> "sleep", phase |-> phase, url |-> <<>>, attempt |-> attempt]

\* Whether the url has the raw-content host and user, repo and branch.
IsStructured(u) == IsRawNetloc(u) /\ Len(Parts(u)) >= 3

ResolveBranchFallback(u, scenario_name) ==
    IF IsRawNetloc(u) /\ Len(Parts(u)) >= 3 THEN "list"
    ELSE IF scenario_name # "" THEN "direct" ELSE "none"
\* The branch fetch_scenario_ini takes for the normalised url: "list" (the
\* hosting API), "direct" (the flat convention) or "none" (return None
\* without a request).
ResolveBranch(u, scenario_name) ==
    IF IsRawNetloc(u)
    THEN IF Len(Parts(u)) >= 3 THEN "list" ELSE "none"
    ELSE IF scenario_name # "" THEN "direct" ELSE "none"

\* config[section]["external"]: the stored value after interpolation.
external_url == Interpolate(Section.external).value

\* The start of process_scenario_section for the next section: a section
\* without `external` is skipped and reading a value the parser cannot
\* interpolate raises; else fetch_scenario_ini is entered, the url
\* normalised and the branch chosen.
SectionStart ==
    /\ pc = "loop"
    /\ idx < Len(config)
    /\ requests' = <<>>
    /\ calls' = {}
    /\ selected' = <<>>
    /\ repo_info' = NoInfo
    /\ info_why' = ""
    /\ IF ~Section.has_external
       THEN EndSection(NoneResult(Section.name, "missing 'external' entry"))
       ELSE IF Interpolate(Section.external).err # ""
       THEN EndSection(Raised(Section.name, Interpolate(Section.external).err))
       ELSE LET u == StripTrailingSlash(external_url)
                branch == ResolveBranch(u, Section.name)
            IN  IF branch = "none"
                THEN EndSection(NoneResult(Section.name, "not enough parts"))
                ELSE /\ url' = u
                     /\ attempt' = 1
                     /\ pc' = IF branch = "list" THEN "resolve_list" ELSE "resolve_direct"
                     /\ last_why' = ""
                     /\ UNCHANGED <<idx, scenarios, results, files, ini_file, content,
                                    scenario_data, target>>
    /\ UNCHANGED batchVars
    /\ UNCHANGED outVars

ResolverAttemptFailedOneMore ==
    IF attempt < retries + 1
    THEN /\ pc' = "resolve_sleep"
         /\ UNCHANGED <<idx, scenarios, results, last_why>>
         /\ UNCHANGED localVars
    ELSE EndSection(NoneResult(Section.name, "All attempts failed"))
\* The end of a failed attempt of fetch_scenario_ini: a sleep follows when
\* attempts are left, else the function returns None and the section is
\* skipped.
ResolverAttemptFailed ==
    IF attempt < retries
    THEN /\ pc' = "resolve_sleep"
         /\ UNCHANGED <<idx, scenarios, results, last_why>>
         /\ UNCHANGED localVars
    ELSE EndSection(NoneResult(Section.name, "All attempts failed"))

RECURSIVE FirstIniLast(_, _)
FirstIniLast(listing, scenario_name) ==
    IF listing = <<>> THEN Null
    ELSE IF /\ Lower(Head(listing).name) = <<LowerTok(scenario_name), ".ini">>
            /\ FirstIniLast(Tail(listing), scenario_name) = Null
    THEN Head(listing).download_url
    ELSE FirstIniLast(Tail(listing), scenario_name)
RECURSIVE FirstIni(_, _)
\* The download_url of the first entry of the listing whose name, lower
\* case, is the scenario name, lower case, followed by ".ini"; Null when
\* there is none.
FirstIni(listing, scenario_name) ==
    IF listing = <<>> THEN Null
    ELSE IF Lower(Head(listing).name) = <<LowerTok(scenario_name), ".ini">>
    THEN Head(listing).download_url
    ELSE FirstIni(Tail(listing), scenario_name)

\* One attempt of the structured branch, up to the raw fetch: the listing
\* request and what its response leads to.
ResolverList ==
    /\ pc = "resolve_list"
    /\ requests' = Append(requests, Get("list", ApiUrl(url)))
    /\ calls' = calls \cup {"resolver"}
    /\ \/ ResolverAttemptFailed
       \/ \E body \in ListingBodies :
             IF body = NotAList
             THEN EndSection(NoneResult(Section.name, "API response is not a list"))
             ELSE LET found == FirstIni(body, Section.name) IN
                  IF found # Null
                  THEN /\ files' = body
                       /\ ini_file' = found
                       /\ pc' = "resolve_raw"
                       /\ UNCHANGED <<idx, scenarios, results, last_why, url, attempt, content,
                                      scenario_data, target>>
                  ELSE EndSection(NoneResult(Section.name, "No .ini file found"))
    /\ UNCHANGED batchVars
    /\ UNCHANGED outVars
    /\ UNCHANGED infoVars

\* The text fetch_scenario_ini returns goes to the parse step.
ResolverReturn(text) ==
    /\ content' = text
    /\ pc' = "parse"
    /\ files' = <<>>
    /\ UNCHANGED <<idx, scenarios, results, last_why, url, attempt, ini_file, scenario_data,
                   target>>

\* The raw fetch failed: the attempt has failed, and the next one asks for
\* the listing again.
RawAttemptFailed ==
    IF attempt < retries
    THEN /\ pc' = "resolve_sleep"
         /\ files' = <<>>
         /\ UNCHANGED <<idx, scenarios, results, last_why, url, attempt, ini_file, content,
                        scenario_data, target>>
    ELSE EndSection(NoneResult(Section.name, "All attempts failed"))

\* The raw fetch of the selected entry, in the same attempt.
ResolverRaw ==
    /\ pc = "resolve_raw"
    /\ requests' = Append(requests, Get("raw", ini_file))
    /\ calls' = calls \cup {"resolver"}
    /\ \/ RawAttemptFailed
       \/ \E text \in Contents : ResolverReturn(text)
    /\ UNCHANGED batchVars
    /\ UNCHANGED outVars
    /\ UNCHANGED infoVars

\* One attempt of the flat branch: the direct fetch.
ResolverDirect ==
    /\ pc = "resolve_direct"
    /\ requests' = Append(requests, Get("direct", DirectIniUrl(url, Section.name)))
    /\ calls' = calls \cup {"resolver"}
    /\ \/ ResolverAttemptFailed
       \/ \E text \in Contents : ResolverReturn(text)
    /\ UNCHANGED batchVars
    /\ UNCHANGED outVars
    /\ UNCHANGED infoVars

\* time.sleep(delay) between two attempts of fetch_scenario_ini.
ResolverSleep ==
    /\ pc = "resolve_sleep"
    /\ requests' = Append(requests, Sleep("resolve"))
    /\ attempt' = attempt + 1
    /\ pc' = IF IsRawNetloc(url) THEN "resolve_list" ELSE "resolve_direct"
    /\ UNCHANGED <<idx, scenarios, results, last_why, url, files, ini_file, content,
                   scenario_data, target, calls>>
    /\ UNCHANGED batchVars
    /\ UNCHANGED outVars
    /\ UNCHANGED infoVars

\* ------------------------------------------------------ get_repo_file_info

\* The date of default_result.
Sentinel == <<"1970-01-01T12:28:29Z">>
default_result == [date |-> Sentinel, filename |-> Null]

\* The file extension each batch passes to process_scenario_section.
FileExtension ==
    IF batch = "contentpacks" THEN <<".valkyrieContentPack">> ELSE <<".valkyrie">>

RECURSIVE FirstWithExtension(_, _)
\* The path and name of the first entry of the listing whose name, lower
\* case, ends with the extension, lower case; NoTarget when there is none.
FirstWithExtension(listing, ext) ==
    IF listing = <<>> THEN NoTarget
    ELSE IF EndsWith(Lower(Head(listing).name), Lower(ext))
    THEN [path |-> Head(listing).path, filename |-> Head(listing).name]
    ELSE FirstWithExtension(Tail(listing), ext)

\* The revision-history URL of the matched file.
CommitsUrl(u, path) ==
    LET parts == Parts(u)
    IN  <<"https://api.github.com/repos/">> \o parts[1] \o <<"/">> \o parts[2]
        \o <<"/commits?sha=">> \o parts[3] \o <<"&path=">> \o path

\* The four assignments of the injection, each made when the item has the
\* metric.
InjectItem(data, item) ==
    LET d1 == IF HasKey(item, "scenario_avg_rating")
              THEN SetKey(data, "rating", PyStr(GetKey(item, "scenario_avg_rating")))
              ELSE data
        d2 == IF HasKey(item, "scenario_play_count")
              THEN SetKey(d1, "play_count", PyStr(GetKey(item, "scenario_play_count")))
              ELSE d1
        d3 == IF HasKey(item, "scenario_avg_duration")
              THEN SetKey(d2, "duration", PyStr(GetKey(item, "scenario_avg_duration")))
              ELSE d2
    IN  IF HasKey(item, "scenario_avg_win_ratio")
        THEN SetKey(d3, "win_ratio", PyStr(GetKey(item, "scenario_avg_win_ratio")))
        ELSE d3

InjectStatsIgnoringCase(data, stats, filename) ==
    LET hit == { i \in 1..Len(stats) :
                    filename # Null /\ Lower(stats[i][1]) = Lower(filename) }
    IN  IF hit = {} THEN data ELSE InjectItem(data, stats[CHOOSE i \in hit : TRUE][2])
\* The statistics injection of process_scenario_section.
InjectStats(data, stats, filename) ==
    IF stats # <<>> /\ filename # Null /\ filename # <<>> /\ HasKey(stats, filename)
    THEN InjectItem(data, GetKey(stats, filename))
    ELSE data

FinishRecordKeepsFetched(name, data, ext, info, stats) ==
    Record(name,
           InjectStats(SetKey(SetKey(data, "url",
                                     IF HasKey(data, "url") THEN GetKey(data, "url")
                                     ELSE ext),
                              "latest_update",
                              IF HasKey(data, "latest_update")
                              THEN GetKey(data, "latest_update") ELSE info.date),
                       stats, info.filename))
\* The record process_scenario_section returns, from the selected fields
\* and what get_repo_file_info returned.
FinishRecord(name, data, ext, info, stats) ==
    Record(name,
           InjectStats(SetKey(SetKey(data, "url", ext), "latest_update", info.date),
                       stats, info.filename))

\* get_repo_file_info returns `info`, having logged `why`, and
\* process_scenario_section finishes.
InfoReturn(data, info, why) ==
    /\ repo_info' = info
    /\ info_why' = why
    /\ EndSection(FinishRecord(Section.name, data, external_url, info, stats_map))

InfoBranchHostOnly(u) == IF IsRawNetloc(u) THEN "list" ELSE "Non-GitHub URL"
\* The branch get_repo_file_info takes for the url: "list" (the hosting
\* API), or a return of default_result without a request, for a url with
\* the raw-content host and too few parts or for any other host.
InfoBranch(u) ==
    IF IsRawNetloc(u)
    THEN IF Len(Parts(u)) >= 3 THEN "list" ELSE "Could not parse repo info"
    ELSE "Non-GitHub URL"

\* process_scenario_section from the returned text to the call of
\* get_repo_file_info, and that call up to its first request: an empty
\* text and a text that does not parse are skipped, a document with no
\* section raises at sections()[0].
ParseScenario ==
    /\ pc = "parse"
    /\ requests' = <<>>
    /\ IF content = NoDoc
       THEN /\ EndSection(NoneResult(Section.name, "Could not fetch scenario.ini"))
            /\ UNCHANGED infoVars
       ELSE LET p == ParseScenarioIni(content) IN
            IF p.err # ""
            THEN /\ EndSection(NoneResult(Section.name, "Failed to parse"))
                 /\ UNCHANGED infoVars
            ELSE LET sel == SelectFields(p) IN
                 IF sel.err # ""
                 THEN /\ EndSection(Raised(Section.name, sel.err))
                      /\ UNCHANGED infoVars
                 ELSE /\ selected' = sel.data
                      /\ IF InfoBranch(external_url) = "list"
                         THEN /\ scenario_data' = sel.data
                              /\ attempt' = 1
                              /\ pc' = "info_list"
                              /\ content' = NoDoc
                              /\ UNCHANGED <<idx, scenarios, results, last_why, url, files,
                                             ini_file, target, repo_info, info_why>>
                         ELSE InfoReturn(sel.data, default_result,
                                         InfoBranch(external_url))
    /\ UNCHANGED <<calls>>
    /\ UNCHANGED batchVars
    /\ UNCHANGED outVars

InfoAttemptFailedKeepsFilename(sleep_pc) ==
    IF attempt < info_retries
    THEN /\ pc' = sleep_pc
         /\ UNCHANGED <<idx, scenarios, results, last_why, repo_info, info_why>>
         /\ UNCHANGED localVars
    ELSE InfoReturn(scenario_data, [date |-> Sentinel, filename |-> target.filename],
                    IF sleep_pc = "info_list_sleep"
                    THEN "No file found after all attempts"
                    ELSE "All attempts failed to fetch commit date")
InfoAttemptFailedSkips(sleep_pc) ==
    IF attempt < info_retries
    THEN /\ pc' = sleep_pc
         /\ UNCHANGED <<idx, scenarios, results, last_why, repo_info, info_why>>
         /\ UNCHANGED localVars
    ELSE /\ repo_info' = default_result
         /\ info_why' = IF sleep_pc = "info_list_sleep"
                        THEN "No file found after all attempts"
                        ELSE "All attempts failed to fetch commit date"
         /\ EndSection(NoneResult(Section.name, "lookup failed"))
\* The end of a failed attempt of one of get_repo_file_info's two loops: a
\* sleep follows when attempts are left, else default_result is returned.
InfoAttemptFailed(sleep_pc) ==
    IF attempt < info_retries
    THEN /\ pc' = sleep_pc
         /\ UNCHANGED <<idx, scenarios, results, last_why, repo_info, info_why>>
         /\ UNCHANGED localVars
    ELSE InfoReturn(scenario_data, default_result,
                    IF sleep_pc = "info_list_sleep"
                    THEN "No file found after all attempts"
                    ELSE "All attempts failed to fetch commit date")

\* One attempt of the listing loop of get_repo_file_info.
InfoList ==
    /\ pc = "info_list"
    /\ requests' = Append(requests, Get("info_list", ApiUrl(external_url)))
    /\ calls' = calls \cup {"info"}
    /\ \/ InfoAttemptFailed("info_list_sleep")
       \/ \E body \in ListingBodies :
             IF body = NotAList
             THEN InfoReturn(scenario_data, default_result, "API response is not a list")
             ELSE LET found == FirstWithExtension(body, FileExtension) IN
                  IF found.path # Null /\ found.path # <<>>
                  THEN /\ target' = found
                       /\ attempt' = 1
                       /\ pc' = "info_commits"
                       /\ UNCHANGED <<idx, scenarios, results, last_why, url, files, ini_file,
                                      content, scenario_data, repo_info, info_why>>
                  ELSE InfoReturn(scenario_data, default_result,
                                  "No file found in repo listing")
    /\ UNCHANGED selected
    /\ UNCHANGED batchVars
    /\ UNCHANGED outVars

\* One attempt of the revision-history loop of get_repo_file_info.
InfoCommits ==
    /\ pc = "info_commits"
    /\ requests' = Append(requests,
                          Get("commits", CommitsUrl(external_url, target.path)))
    /\ calls' = calls \cup {"info"}
    /\ \/ InfoAttemptFailed("info_commits_sleep")
       \/ \E commits \in CommitBodies :
             IF commits # <<>>
             THEN InfoReturn(scenario_data,
                             [date |-> commits[1], filename |-> target.filename],
                             "Latest commit date")
             ELSE InfoAttemptFailed("info_commits_sleep")
    /\ UNCHANGED selected
    /\ UNCHANGED batchVars
    /\ UNCHANGED outVars

\* time.sleep(delay) between two attempts of get_repo_file_info.
InfoSleep ==
    /\ pc \in {"info_list_sleep", "info_commits_sleep"}
    /\ requests' = Append(requests, Sleep("info"))
    /\ attempt' = attempt + 1
    /\ pc' = IF pc = "info_list_sleep" THEN "info_list" ELSE "info_commits"
    /\ UNCHANGED <<idx, scenarios, results, last_why, url, files, ini_file, content,
                   scenario_data, target, calls>>
    /\ UNCHANGED batchVars
    /\ UNCHANGED outVars
    /\ UNCHANGED infoVars

\* ---------------------------------------------- write_manifest_download_ini

\* The lines of the text f"{k}={v}\n": the value is written as it is, so
\* each line break in it starts a new, unindented line of the file.
WrittenLines(k, v) ==
    LET pieces == Split(v, "\n")
    IN  [i \in 1..Len(pieces) |->
            IF i = 1 THEN Opt(k, pieces[1])
            ELSE IF pieces[i] = <<>> THEN Blank
            ELSE Text(pieces[i])]

RECURSIVE OptionLines(_)
\* for k, v in scenario["data"].items(): f.write(f"{k}={v}\n")
OptionLines(data) ==
    IF data = <<>> THEN <<>>
    ELSE WrittenLines(Head(data)[1], Head(data)[2]) \o OptionLines(Tail(data))

RECURSIVE RecordLines(_)
\* The section header, the options and the blank line of each record.
RecordLines(recs) ==
    IF recs = <<>> THEN <<>>
    ELSE <<Sect(Head(recs).name)>> \o OptionLines(Head(recs).data) \o <<Blank>>
         \o RecordLines(Tail(recs))

\* The header line: "# Generated with N scenarios" or "... N content packs".
HeaderLine(recs, is_content_pack) ==
    Line("comment", "",
         <<"# Generated with ", ToString(Len(recs)),
           IF is_content_pack THEN " content packs" ELSE " scenarios">>)

\* The lines write_manifest_download_ini writes when nothing fails.
ManifestLines(recs, is_content_pack) ==
    <<HeaderLine(recs, is_content_pack)>> \o RecordLines(recs)

\* A line the failing write cut short: some of its text, without its end.
CutLine == Line("cut", "", <<>>)

\* The files a failed write can leave once open() has truncated the file:
\* the text written before the failure, which ends after any line of the
\* file (the empty file included) or inside the next one.
CutFiles(lines) ==
    { SubSeq(lines, 1, n) \o tail :
        n \in 0..(Len(lines) - 1), tail \in {<<>>, <<CutLine>>} }

WriteManifestInLoop ==
    /\ pc = "loop"
    /\ writes <= idx
    /\ out_file' = <<HeaderLine(scenarios, batch = "contentpacks")>> \o RecordLines(scenarios)
    /\ out_status' = "ok"
    /\ writes' = writes + 1
    /\ pc' = IF idx = Len(config) THEN "batch_end" ELSE "loop"
    /\ UNCHANGED <<idx, scenarios, results, last_why, requests, calls, exit_code>>
    /\ UNCHANGED batchVars
    /\ UNCHANGED localVars
    /\ UNCHANGED infoVars
\* process_manifest once the loop has gone through every section: what the
\* last section's calls logged and returned ends with the loop, and the
\* writer is called next.
LoopExit ==
    /\ pc = "loop"
    /\ idx = Len(config)
    /\ pc' = "write"
    /\ requests' = <<>>
    /\ calls' = {}
    /\ selected' = <<>>
    /\ repo_info' = NoInfo
    /\ info_why' = ""
    /\ last_why' = ""
    /\ UNCHANGED <<idx, scenarios, results>>
    /\ UNCHANGED batchVars
    /\ UNCHANGED outVars
    /\ UNCHANGED localVars

\* write_manifest_download_ini. The file is opened for writing (truncated)
\* and written record by record; an exception of open() or of a write is
\* caught and logged inside the function, which then returns normally:
\* either the file was not opened and is as it was, or it was truncated and
\* holds the text written before the failing write, cut anywhere (inside a
\* record, inside a line, or before the header).
WriteManifest ==
    /\ pc = "write"
    /\ LET lines == ManifestLines(scenarios, batch = "contentpacks") IN
       \/ /\ out_file' = lines
          /\ out_status' = "ok"
       \/ /\ out_file' = out_file
          /\ out_status' = "failed"
       \/ /\ out_file' \in CutFiles(lines)
          /\ out_status' = "failed"
    /\ writes' = writes + 1
    /\ pc' = "batch_end"
    /\ UNCHANGED <<idx, scenarios, results, last_why, requests, calls, exit_code>>
    /\ UNCHANGED batchVars
    /\ UNCHANGED localVars
    /\ UNCHANGED infoVars

\* main after process_manifest has returned: process_contentpacks_manifest
\* is called, on the content-pack catalogue and its own output path.
StartContentPacks ==
    /\ pc = "batch_end"
    /\ batch = "scenarios"
    /\ batch' = "contentpacks"
    /\ pc' = "fetch_stats"
    /\ idx' = 0
    /\ scenarios' = <<>>
    /\ results' = <<>>
    /\ last_why' = ""
    /\ config' = <<>>
    /\ stats_map' = <<>>
    /\ requests' = <<>>
    /\ calls' = {}
    /\ out_file' = NoFile
    /\ out_status' = "none"
    /\ writes' = 0
    /\ stats_fetches' = 0
    /\ manifest_content' = NoDoc
    /\ selected' = <<>>
    /\ repo_info' = NoInfo
    /\ info_why' = ""
    /\ UNCHANGED <<game_type, exit_code>>
    /\ UNCHANGED localVars

\* main returns after process_contentpacks_manifest: exit status 0. What
\* the batch held in memory ends with the process; the file stays.
Finish ==
    /\ pc = "batch_end"
    /\ batch = "contentpacks"
    /\ pc' = "done"
    /\ exit_code' = 0
    /\ idx' = 0
    /\ scenarios' = <<>>
    /\ results' = <<>>
    /\ config' = <<>>
    /\ stats_map' = <<>>
    /\ manifest_content' = NoDoc
    /\ UNCHANGED <<batch, game_type, stats_fetches, last_why, requests, calls, out_file,
                   out_status, writes>>
    /\ UNCHANGED localVars
    /\ UNCHANGED infoVars

Next ==
    \/ Main
    \/ FetchStats
    \/ ParseManifest
    \/ SectionStart
    \/ ResolverList
    \/ ResolverRaw
    \/ ResolverDirect
    \/ ResolverSleep
    \/ ParseScenario
    \/ InfoList
    \/ InfoCommits
    \/ InfoSleep
    \/ LoopExit
    \/ WriteManifest
    \/ StartContentPacks
    \/ Finish

Spec == Init /\ [][Next]_vars

\* ---------------------------------------------------------------- claims

RECURSIVE RecordNames(_)
\* The names of the results that are records, in order.
RecordNames(rs) ==
    IF rs = <<>> THEN <<>>
    ELSE IF Head(rs).outcome = "record"
    THEN <<Head(rs).name>> \o RecordNames(Tail(rs))
    ELSE RecordNames(Tail(rs))

\* The batch has gone through its loop and called the writer.
BatchOver == pc \in {"batch_end", "done"}

\* The writer has just returned, having written the file without a failure:
\* the file is the one of the records the batch still holds.
Written == pc = "batch_end" /\ out_status = "ok"

\* C1: whichever sections raise or are skipped, the loop goes through every
\* section of the catalogue once and in document order, and the collected
\* records are those of the sections that returned a record, in that order;
\* the writer is called only after the last section.
C1_FaultIsolation ==
    /\ Len(results) = idx
    /\ Len(results) <= Len(config)
    /\ \A i \in 1..Len(results) : results[i].name = config[i].name
    /\ [i \in 1..Len(scenarios) |-> scenarios[i].name] = RecordNames(results)
    /\ BatchOver => Len(results) = Len(config)

\* A batch is over in which a section raised, and a later one gave a record.
C1_Witness ==
    /\ BatchOver
    /\ \E i, j \in 1..Len(results) :
          /\ i < j
          /\ results[i].outcome = "raised"
          /\ results[j].outcome = "record"
          /\ scenarios = <<[name |-> results[j].name, data |-> scenarios[1].data]>>

\* The step that processes a section without `external`.
SkipsMissingExternal ==
    /\ pc = "loop"
    /\ idx < Len(config)
    /\ ~config[idx + 1].has_external

\* The state in which C2's section has just been processed.
AfterMissingExternal ==
    /\ pc = "loop"
    /\ idx > 0
    /\ ~config[idx].has_external

\* C2: a section without `external` gives no record (its result is None and
\* no collected record bears its name), no request is sent for it by the
\* resolver or by the freshness lookup, and its processing leaves
\* everything the later sections' processing reads as it was.
C2_MissingExternalSkipped ==
    /\ [](/\ \A i \in 1..Len(results) :
               ~config[i].has_external =>
                  /\ results[i].outcome = "none"
                  /\ \A k \in 1..Len(scenarios) : scenarios[k].name # config[i].name
          /\ AfterMissingExternal => calls = {} /\ requests = <<>>)
    /\ [][SkipsMissingExternal =>
            /\ idx' = idx + 1
            /\ UNCHANGED <<scenarios, batchVars, outVars, localVars>>]_vars

\* A section without `external` was skipped and the next one gave a record.
C2_Witness ==
    /\ BatchOver
    /\ Len(results) = 2
    /\ ~config[1].has_external
    /\ config[2].has_external
    /\ results[2].outcome = "record"
    /\ Len(scenarios) = 1

\* C3 (as claimed): when the write of the output manifest fails, the batch
\* ends abnormally: the run does not go on and does not end with status 0.
C3_WriteFailureIsFatal ==
    out_status = "failed" => pc = "crashed" /\ exit_code # 0

\* C4 (as claimed): no call of process_scenario_section ends with an
\* exception; each ends with a record or None.
C4_NoExceptionEscapes ==
    \A i \in 1..Len(results) : results[i].outcome \in {"record", "none"}

RECURSIVE CountGets(_, _)
\* The number of requests of the phase in the log.
CountGets(log, phase) ==
    IF log = <<>> THEN 0
    ELSE (IF Head(log).op = "get" /\ Head(log).phase = phase THEN 1 ELSE 0)
         + CountGets(Tail(log), phase)

\* fetch_scenario_ini is running, or has just returned a text.
InResolver == pc \in {"resolve_list", "resolve_raw", "resolve_direct", "resolve_sleep"}
ResolverReturnedText == pc = "parse"
\* fetch_scenario_ini has just returned None with the given log message.
ResolverReturnedNone(why) == pc = "loop" /\ idx > 0 /\ last_why = why
\* `requests` is the log of a call of fetch_scenario_ini.
ResolverLog ==
    \/ InResolver
    \/ ResolverReturnedText
    \/ \E why \in {"All attempts failed", "API response is not a list",
                   "No .ini file found"} : ResolverReturnedNone(why)

\* Each phase is tried at most `retries` times; attempts are numbered from
\* 1, the requests of one attempt follow each other, and exactly one sleep
\* stands between the last request of an attempt and the first of the next;
\* no sleep follows the last request of a call that has returned.
RetriesAndDelays ==
    ResolverLog =>
       /\ \A phase \in {"list", "raw", "direct"} : CountGets(requests, phase) <= retries
       /\ requests # <<>> => requests[1].op = "get" /\ requests[1].attempt = 1
       /\ \A i \in 1..Len(requests) :
             /\ requests[i].op = "sleep" =>
                   /\ i > 1
                   /\ requests[i - 1].op = "get"
                   /\ requests[i - 1].attempt = requests[i].attempt
             /\ (i > 1 /\ requests[i].op = "get") =>
                   IF requests[i - 1].op = "sleep"
                   THEN requests[i].attempt = requests[i - 1].attempt + 1
                   ELSE requests[i].attempt = requests[i - 1].attempt
       /\ (~InResolver /\ requests # <<>>) => requests[Len(requests)].op = "get"

\* C5 (as claimed): the retry policy, and resolution gives up on a phase
\* that keeps failing only after that phase itself was tried `retries`
\* times.
C5_PhaseTriedRetriesTimes ==
    /\ RetriesAndDelays
    /\ ResolverReturnedNone("All attempts failed") =>
          CountGets(requests, requests[Len(requests)].phase) = retries

\* C5 (amended): the retry policy, and resolution gives up only after
\* `retries` attempts of the loop, each starting with a listing request (or
\* being a direct fetch); the raw fetch belongs to the listing's attempt
\* and has no count of its own.
C5_RetryPolicy ==
    /\ RetriesAndDelays
    /\ ResolverReturnedNone("All attempts failed") =>
          /\ requests[Len(requests)].attempt = retries
          /\ CountGets(requests, "list") + CountGets(requests, "direct") = retries

\* Resolution gave up after three listings and a single raw fetch.
C5_Witness ==
    /\ ResolverReturnedNone("All attempts failed")
    /\ CountGets(requests, "list") = 3
    /\ CountGets(requests, "raw") = 1
    /\ Len(requests) = 6

\* C6: a batch opens its output file at most once, and not before the loop
\* has gone through the last section of the catalogue.
C6_WrittenOnceAtTheEnd ==
    /\ writes <= 1
    /\ writes = 0 => out_status = "none"
    /\ writes > 0 => BatchOver /\ idx = Len(config) /\ Len(results) = Len(config)
    /\ ~BatchOver => writes = 0

\* A batch of two sections has written its file, with a record in it.
C6_Witness ==
    /\ BatchOver
    /\ writes = 1
    /\ out_status = "ok"
    /\ Len(config) = 2
    /\ Len(scenarios) >= 1

\* The number of section headers among the lines.
RECURSIVE CountSections(_)
CountSections(lines) ==
    IF lines = <<>> THEN 0
    ELSE (IF Head(lines).kind = "section" THEN 1 ELSE 0) + CountSections(Tail(lines))

\* C7 (as claimed): for every batch, the count of the header line of the
\* output manifest is the number of record sections written after it; a
\* batch with no record still writes the file, made of the header with
\* count 0 alone. Stated of every batch that has ended.
C7_HeaderCount ==
    pc = "batch_end" =>
       /\ out_file # NoFile
       /\ Len(out_file) >= 1
       /\ out_file[1].kind = "comment"
       /\ out_file[1].value[2] = ToString(CountSections(out_file))
       /\ out_file[1].value[3] =
             (IF batch = "contentpacks" THEN " content packs" ELSE " scenarios")
       /\ scenarios = <<>> => Len(out_file) = 1 /\ out_file[1].value[2] = "0"

\* A batch has ended, its run going on, with a file whose header states two
\* records and which has one record section: the write failed inside the
\* second record.
C7_Witness ==
    /\ pc = "batch_end"
    /\ out_status = "failed"
    /\ Len(out_file) >= 2
    /\ out_file[1] = HeaderLine(scenarios, batch = "contentpacks")
    /\ out_file[1].value[2] = "2"
    /\ CountSections(out_file) = 1

\* What holds of the header: a write in which nothing failed left the header
\* with the number of collected records, which is the number of record
\* sections after it, and the header alone when there is no record.
HeaderCountOfWholeFile ==
    /\ (BatchOver /\ out_status # "failed") => out_status = "ok"
    /\ Written =>
          /\ Len(out_file) >= 1
          /\ out_file[1].kind = "comment"
          /\ out_file[1].value[2] = ToString(CountSections(out_file))
          /\ out_file[1].value[3] =
                (IF batch = "contentpacks" THEN " content packs" ELSE " scenarios")
          /\ CountSections(out_file) = Len(scenarios)
          /\ scenarios = <<>> => Len(out_file) = 1 /\ out_file[1].value[2] = "0"

\* The section being processed has a flat url (not of the structured
\* hosting), and `requests` is the log of its resolution.
FlatResolution ==
    /\ pc \in {"resolve_direct", "resolve_sleep", "parse"}
    /\ ~IsStructured(Section.external)

\* C8 (as claimed): every request of the resolution of a flat url U for
\* the name E goes to U + "/" + E + ".ini", also when U ends with a slash.
C8_DirectUrlUnnormalised ==
    FlatResolution =>
       \A i \in 1..Len(requests) :
          requests[i].op = "get" =>
             requests[i].url = Section.external \o <<"/", Section.name, ".ini">>

\* U without one trailing slash, if it has one.
WithoutOneSlash(u) ==
    IF Len(u) > 0 /\ u[Len(u)] = "/" THEN [i \in 1..(Len(u) - 1) |-> u[i]] ELSE u

\* C8 (amended): every request of the resolution of a flat url U for the
\* name E is a direct fetch of N + "/" + E + ".ini", N being U without a
\* single trailing slash.
C8_DirectUrl ==
    FlatResolution =>
       \A i \in 1..Len(requests) :
          requests[i].op = "get" =>
             /\ requests[i].phase = "direct"
             /\ requests[i].url =
                   WithoutOneSlash(Section.external) \o <<"/", Section.name, ".ini">>

\* A flat url ending with two slashes has been fetched from.
C8_Witness ==
    /\ FlatResolution
    /\ pc = "parse"
    /\ Len(Section.external) > 2
    /\ Section.external[Len(Section.external)] = "/"
    /\ Section.external[Len(Section.external) - 1] = "/"
    /\ Len(requests) >= 1

\* The section just processed: its entry.
LastEntry == config[idx]
\* The section just processed had its `external` read and the resolver
\* called with it.
ResolverCalled ==
    /\ pc = "loop"
    /\ idx > 0
    /\ LastEntry.has_external
    /\ last_why # "InterpolationSyntaxError"
\* A url on the raw-content host without user, repo and branch.
RawTooShort(u) == IsRawNetloc(u) /\ Len(Parts(u)) < 3

\* C9 (as claimed): for every url that is not of the structured hosting,
\* the raw-content host with too few path parts included, the resolver has
\* sent a direct fetch.
C9_EveryOtherUrlIsDirect ==
    (ResolverCalled /\ ~IsStructured(LastEntry.external)) => "resolver" \in calls

\* C9 (amended): for every url whose host is not the raw-content host the
\* resolver sends a direct fetch; for a url on the raw-content host with
\* fewer than three path parts it sends no request and returns None.
C9_FlatFallback ==
    /\ (InResolver \/ ResolverReturnedText) =>
          /\ ~RawTooShort(Section.external)
          /\ (~IsRawNetloc(Section.external) /\ requests # <<>>) =>
                requests[1].phase = "direct"
    /\ ResolverCalled =>
          /\ ~IsRawNetloc(LastEntry.external) => "resolver" \in calls
          /\ RawTooShort(LastEntry.external) =>
                /\ calls = {}
                /\ results[idx].outcome = "none"
                /\ last_why = "not enough parts"

\* A url on the raw-content host with two path parts has been skipped.
C9_Witness ==
    /\ pc = "loop"
    /\ idx > 0
    /\ LastEntry.has_external
    /\ RawTooShort(LastEntry.external)
    /\ last_why = "not enough parts"

\* The listing entry is named like the section's .ini, case ignored.
NamedLikeSection(f) == Lower(f.name) = Lower(<<Section.name, ".ini">>)

\* C10: the raw fetch goes to the first entry of the listing whose name is
\* the section's name plus ".ini", case ignored, and to no other; after a
\* listing without such an entry the resolver returns None at once: the
\* listing request is the last request of the call.
C10_FirstCaseInsensitiveMatch ==
    /\ pc = "resolve_raw" =>
          \E k \in 1..Len(files) :
             /\ NamedLikeSection(files[k])
             /\ \A j \in 1..(k - 1) : ~NamedLikeSection(files[j])
             /\ ini_file = files[k].download_url
    /\ (pc \in {"resolve_sleep", "parse"} /\ requests # <<>>
          /\ requests[Len(requests)].phase = "raw") =>
             requests[Len(requests)].url = ini_file
    /\ ResolverReturnedNone("No .ini file found") =>
          /\ requests[Len(requests)].op = "get"
          /\ requests[Len(requests)].phase = "list"

\* The raw fetch is about to go to the first of two entries that match.
C10_Witness ==
    /\ pc = "resolve_raw"
    /\ Section.name = "Foo"
    /\ Len(files) >= 2
    /\ files[1].name = <<"FOO", ".INI">>
    /\ NamedLikeSection(files[2])
    /\ ini_file = files[1].download_url

\* The section just processed ended with a record, the last of `scenarios`.
Emitted == pc = "loop" /\ idx > 0 /\ results[idx].outcome = "record"
LastRecord == scenarios[Len(scenarios)]

\* get_repo_file_info was called for the section just processed and could
\* not produce a commit date, for the reason it logged.
LookupFailed ==
    /\ pc = "loop"
    /\ idx > 0
    /\ info_why \in {"No file found after all attempts",
                     "API response is not a list",
                     "No file found in repo listing",
                     "All attempts failed to fetch commit date"}

\* C11: whenever the freshness lookup cannot produce a commit date (the
\* listing fails on all attempts, is not a list or has no entry with the
\* extension, or the revision-history request fails or has no commits on
\* all attempts), get_repo_file_info returns the sentinel, the entry is
\* emitted and its record's latest_update is "1970-01-01T12:28:29Z".
C11_SentinelOnFailure ==
    LookupFailed =>
       /\ repo_info.date = <<"1970-01-01T12:28:29Z">>
       /\ Emitted
       /\ LastRecord.name = LastEntry.name
       /\ HasKey(LastRecord.data, "latest_update")
       /\ GetKey(LastRecord.data, "latest_update") = <<"1970-01-01T12:28:29Z">>
       /\ info_why = "No file found after all attempts" =>
             /\ CountGets(requests, "info_list") = info_retries
             /\ CountGets(requests, "commits") = 0
       /\ info_why = "All attempts failed to fetch commit date" =>
             CountGets(requests, "commits") = info_retries

\* The revision-history request failed on every attempt, after a listing
\* that had a file with the extension, and the record was emitted.
C11_Witness ==
    /\ LookupFailed
    /\ info_why = "All attempts failed to fetch commit date"
    /\ CountGets(requests, "info_list") = 2
    /\ Emitted
    /\ GetKey(LastRecord.data, "latest_update") = <<"1970-01-01T12:28:29Z">>

\* get_repo_file_info is running its requests for the current section.
InInfo == pc \in {"info_list", "info_list_sleep", "info_commits", "info_commits_sleep"}

\* C12: for every source url that is not of the structured-hosting shape
\* (the raw-content host with user, repo and branch), get_repo_file_info
\* returns the sentinel date with filename None and sends no request. (Its
\* first part is about the function alone and is evaluated once, in the
\* first state.)
C12_NoLookupOffStructured ==
    /\ pc = "main" =>
          \A e \in EntryPool :
             (e.has_external /\ ~IsStructured(e.external)) => InfoBranch(e.external) # "list"
    /\ InInfo => IsStructured(Section.external)
    /\ (Emitted /\ ~IsStructured(LastEntry.external)) =>
          /\ repo_info = [date |-> <<"1970-01-01T12:28:29Z">>, filename |-> Null]
          /\ "info" \notin calls
          /\ requests = <<>>

\* A record was emitted for a flat url while the batch had a StatsIndex.
C12_Witness ==
    /\ Emitted
    /\ ~IsRawNetloc(LastEntry.external)
    /\ info_why = "Non-GitHub URL"
    /\ repo_info.filename = Null
    /\ stats_map # <<>>

\* The keys of an ordered mapping.
Keys(d) == { d[i][1] : i \in 1..Len(d) }

\* The injected fields and the metric each comes from.
StatFields ==
    { <<"rating", "scenario_avg_rating">>, <<"play_count", "scenario_play_count">>,
      <<"duration", "scenario_avg_duration">>, <<"win_ratio", "scenario_avg_win_ratio">> }

\* The value process_scenario_section reads as the entry's `external`.
ValueRead(entry) == Interpolate(entry.external).value

\* The data of the record just emitted as it was before the injection: the
\* selected fields with url and latest_update set.
BeforeInjection ==
    SetKey(SetKey(selected, "url", ValueRead(LastEntry)), "latest_update", repo_info.date)

\* d and e have the same value for k, or both have no k.
SameAt(d, e, k) ==
    /\ HasKey(d, k) <=> HasKey(e, k)
    /\ HasKey(d, k) => GetKey(d, k) = GetKey(e, k)

\* C13: when the filename returned by the freshness lookup is a key of the
\* StatsIndex, compared case-sensitively, each of rating, play_count,
\* duration and win_ratio is the string form of its metric exactly when the
\* item has the metric, and every other key of the data is as before; when
\* the filename is None or no key of the index, the data is as before.
C13_StatsInjection ==
    Emitted =>
       LET after == LastRecord.data
           filename == repo_info.filename
       IN  IF filename # Null /\ \E i \in 1..Len(stats_map) : stats_map[i][1] = filename
           THEN LET item == stats_map[CHOOSE i \in 1..Len(stats_map) :
                                         stats_map[i][1] = filename][2]
                IN  /\ \A f \in StatFields :
                          IF f[2] \in Keys(item)
                          THEN /\ HasKey(after, f[1])
                               /\ GetKey(after, f[1]) = PyStr(GetKey(item, f[2]))
                          ELSE SameAt(after, BeforeInjection, f[1])
                    /\ \A k \in (Keys(after) \cup Keys(BeforeInjection))
                                   \ { f[1] : f \in StatFields } :
                          SameAt(after, BeforeInjection, k)
           ELSE after = BeforeInjection

\* A record whose fetched fields had a rating and a duration got the rating
\* and the play count of the index, the index having no duration for it.
C13_Witness ==
    /\ Emitted
    /\ repo_info.filename = <<"X", ".valkyrie">>
    /\ HasKey(stats_map, <<"X", ".valkyrie">>)
    /\ HasKey(selected, "rating")
    /\ GetKey(selected, "rating") = <<"old">>
    /\ GetKey(LastRecord.data, "rating") = <<"4", ".", "5">>
    /\ GetKey(LastRecord.data, "play_count") = <<"12">>
    /\ GetKey(LastRecord.data, "duration") = <<"90">>
    /\ ~HasKey(LastRecord.data, "win_ratio")

\* C14: each batch calls fetch_stats once, before its catalogue is parsed
\* and its first section processed, and never again, whatever the sections
\* and their outcomes; the call sends one request, failed or not.
C14_StatsFetchedOnce ==
    /\ pc \in {"main", "exit", "fetch_stats"} => stats_fetches = 0
    /\ pc \notin {"main", "exit", "fetch_stats"} => stats_fetches = 1

\* The second batch went through two sections, one of which raised, after
\* a failed fetch of the statistics, and sent the one request.
C14_Witness ==
    /\ BatchOver
    /\ batch = "contentpacks"
    /\ Len(results) = 2
    /\ \E i \in 1..2 : results[i].outcome = "raised"
    /\ stats_map = <<>>
    /\ stats_fetches = 1

\* The entry of the parsed catalogue with the given section name.
EntryNamed(name) == config[CHOOSE i \in 1..Len(config) : config[i].name = name]

\* The number of pairs of d with the key k.
CountKey(d, k) == Cardinality({ i \in 1..Len(d) : d[i][1] = k })

\* C15: every record has one url and one latest_update field; url is the
\* `external` value read from its catalogue entry, trailing slash kept,
\* and latest_update is the date get_repo_file_info returned, also when the
\* fetched section has keys named url or latest_update. The written file
\* carries both as options of the record's section.
C15_UrlAndLatestUpdate ==
    /\ \A i \in 1..Len(scenarios) :
          LET data == scenarios[i].data IN
          /\ CountKey(data, "url") = 1
          /\ CountKey(data, "latest_update") = 1
          /\ GetKey(data, "url") = ValueRead(EntryNamed(scenarios[i].name))
    /\ Emitted => GetKey(LastRecord.data, "latest_update") = repo_info.date
    /\ Written =>
          \A i \in 1..Len(scenarios) :
             /\ \E n \in 1..Len(out_file) :
                   out_file[n] = Opt("url", ValueRead(EntryNamed(scenarios[i].name)))
             /\ \E n \in 1..Len(out_file) :
                   out_file[n] = Opt("latest_update",
                                     GetKey(scenarios[i].data, "latest_update"))

\* A record whose fetched section had its own url and latest_update, for an
\* entry whose `external` ends with a slash, with a commit date.
C15_Witness ==
    /\ Emitted
    /\ HasKey(selected, "url")
    /\ HasKey(selected, "latest_update")
    /\ GetKey(selected, "url") = <<"stale">>
    /\ GetKey(selected, "latest_update") = <<"old">>
    /\ LastEntry.external[Len(LastEntry.external)] = "/"
    /\ GetKey(LastRecord.data, "url") = LastEntry.external
    /\ GetKey(LastRecord.data, "latest_update") = SomeDate

\* The step in which process_scenario_section parses the returned text and
\* goes on with the fields it selected.
SelectsFields ==
    /\ pc = "parse"
    /\ \/ pc' = "info_list"
       \/ pc' = "loop" /\ results'[Len(results')].outcome = "record"

\* The fields the selection is to publish for a text: those of its section
\* named exactly Quest when it has one, else those of its first section.
PublishedFields(text) ==
    LET p == ReadString(StripBom(text))
        names == Sections(p)
    IN  IF \E i \in 1..Len(names) : names[i] = "Quest"
        THEN Items(p, "Quest")
        ELSE Items(p, names[1])

\* C16: when the parsed metadata has a section named exactly Quest, the
\* selected fields are that section's fields, wherever the section stands
\* in the document; when it has none, they are the fields of the first
\* section in document order.
C16_FieldSelection == [][SelectsFields => selected' = PublishedFields(content)]_vars

\* Two records: one from a text whose Quest section comes second, one from
\* a text without a Quest section whose first section is followed by another.
C16_Witness ==
    /\ Len(scenarios) = 2
    /\ HasKey(scenarios[1].data, "name")
    /\ GetKey(scenarios[1].data, "name") = <<"q">>
    /\ HasKey(scenarios[2].data, "Name")
    /\ GetKey(scenarios[2].data, "Name") = <<"p">>

\* The values of a section as the catalogue's parser gives them: each is
\* interpolated when it is read.
ItemsRead(items) ==
    IF \E i \in 1..Len(items) : Interpolate(items[i][2]).err # ""
    THEN [err |-> "InterpolationSyntaxError", data |-> <<>>]
    ELSE [err |-> "",
          data |-> [i \in 1..Len(items) |->
                       <<items[i][1], Interpolate(items[i][2]).value>>]]

\* What parsing the lines of a written manifest with parse_manifest_ini and
\* reading every section recovers: the (name, data) pairs in document
\* order, or the exception raised on the way.
Reparsed(lines) ==
    LET p == parse_manifest_ini(Doc(FALSE, lines)) IN
    IF p.err # "" THEN [err |-> p.err, records |-> <<>>]
    ELSE IF \E i \in 1..Len(p.sections) :
               ItemsRead(Items(p, p.sections[i].name)).err # ""
    THEN [err |-> "InterpolationSyntaxError", records |-> <<>>]
    ELSE [err |-> "",
          records |-> [i \in 1..Len(p.sections) |->
                          [name |-> p.sections[i].name,
                           data |-> ItemsRead(Items(p, p.sections[i].name)).data]]]

\* C17 (as claimed): whatever records the batch collected, parsing the
\* manifest written from them recovers the same (name, data) pairs, names
\* and fields in the same order.
C17_RoundTrip ==
    Written => Reparsed(out_file) = [err |-> "", records |-> scenarios]

\* The value has a literal percent sign.
HasPercent(value) == \E i \in 1..Len(value) : value[i] = "%"

\* C18 (as claimed): a value with a literal % is read unchanged and without
\* an interpolation error by both parsers: a fetched field with a % is
\* published as it is, and a catalogue entry whose `external` has a % is
\* processed like any other, its value going to the resolver.
C18_PercentIsLiteral ==
    /\ Emitted =>
          \A i \in 1..Len(selected) :
             (HasPercent(selected[i][2]) /\ selected[i][1] \notin {"url", "latest_update"})
                => SameAt(LastRecord.data, selected, selected[i][1])
    /\ (pc = "loop" /\ idx > 0 /\ LastEntry.has_external
           /\ HasPercent(LastEntry.external)) =>
          /\ last_why # "InterpolationSyntaxError"
          /\ "resolver" \in calls

\* C19 (as claimed): a text that begins with a byte-order marker parses to
\* the sections, keys and values of the text without the marker, for the
\* fetched metadata and for the catalogue: the marker alone never makes a
\* skip of a fetched text, nor a failure of the reading of the catalogue.
C19_MarkerIsIgnored ==
    /\ \A text \in Contents : ParseScenarioIni(text) = ParseScenarioIni(StripBom(text))
    /\ (pc = "crashed" /\ manifest_content.bom) =>
          parse_manifest_ini(StripBom(manifest_content)).err # ""
    /\ (pc = "loop" /\ manifest_content.bom) =>
          config = EntriesOf(parse_manifest_ini(StripBom(manifest_content)))

\* The last request of the log is a revision-history request for the path.
LastRequestIsCommitsOf(path) ==
    /\ requests # <<>>
    /\ requests[Len(requests)].phase = "commits"
    /\ EndsWith(requests[Len(requests)].url, <<"&path=">> \o path)

\* C20: get_repo_file_info returns a filename only with a date read from a
\* successful revision-history response; every return that carries the
\* sentinel because a step failed carries filename None, so that the record
\* of an entry whose revision-history lookup failed has no injected field,
\* also when the listing matched a file that is a key of the StatsIndex.
C20_FilenameOnlyWithDate ==
    (pc = "loop" /\ idx > 0 /\ info_why # "") =>
       /\ repo_info.filename # Null =>
             /\ info_why = "Latest commit date"
             /\ repo_info.date = SomeDate
             /\ LastRequestIsCommitsOf(repo_info.filename)
       /\ info_why # "Latest commit date" =>
             /\ repo_info = [date |-> <<"1970-01-01T12:28:29Z">>, filename |-> Null]
             /\ Emitted
             /\ LastRecord.data = BeforeInjection

\* The revision-history lookup of a file that is a key of the StatsIndex
\* failed on every attempt, and the record has no rating.
C20_Witness ==
    /\ Emitted
    /\ info_why = "All attempts failed to fetch commit date"
    /\ LastRequestIsCommitsOf(<<"X", ".valkyrie">>)
    /\ HasKey(stats_map, <<"X", ".valkyrie">>)
    /\ ~HasKey(LastRecord.data, "rating")
    /\ ~HasKey(LastRecord.data, "play_count")

====
